---------------------------- MODULE Spec2Model ----------------------------
(***************************************************************************)
(* Model of the two command-line phases of the pre-registration protocol:  *)
(*   scripts/pre-register.py  (registration phase)                         *)
(*   scripts/compare-run.py   (comparison phase)                           *)
(* One behaviour of Spec is one invocation of one of the two scripts.      *)
(* External collaborators (environment, inference service, datastore,      *)
(* file system) are nondeterministic inputs.                               *)
(***************************************************************************)
EXTENDS Integers, Sequences, FiniteSets, TLC

(***************************************************************************)
(* Bounds of the model.                                                    *)
(***************************************************************************)
\* longest list of prediction objects the inference service returns
MaxPreds == 2

(***************************************************************************)
(* JSON values, as json.loads produces them.  One record shape for all:    *)
(*   t = "str"  : a string, s its text                                     *)
(*   t = "num"  : a scalar that is not a string (number, true, null)       *)
(*   t = "list" : items are the elements                                   *)
(*   t = "dict" : keys[i] maps to items[i], in encounter order             *)
(***************************************************************************)
Str(x) == [t |-> "str", s |-> x, keys |-> <<>>, items |-> <<>>]

Num == [t |-> "num", s |-> "", keys |-> <<>>, items |-> <<>>]

List(xs) == [t |-> "list", s |-> "", keys |-> <<>>, items |-> xs]

Dict(ks, vs) == [t |-> "dict", s |-> "", keys |-> ks, items |-> vs]

\* k in d
Has(d, k) == \E i \in 1..Len(d.keys) : d.keys[i] = k

\* d.get(k, default)
Get(d, k, default) ==
  IF Has(d, k)
  THEN d.items[CHOOSE i \in 1..Len(d.keys) : d.keys[i] = k]
  ELSE default

\* isinstance(v, dict)
IsDict(v) == v.t = "dict"

\* isinstance(v, list)
IsList(v) == v.t = "list"

\* all(isinstance(v, dict) for v in d.values())
AllValuesDicts(d) == \A i \in 1..Len(d.items) : IsDict(d.items[i])

(***************************************************************************)
(* The question catalog (id, min_agents); category and question text do    *)
(* not influence any modelled decision.                                    *)
(***************************************************************************)
Q(i, m) == [id |-> i, min_agents |-> m]

RESEARCH_QUESTIONS ==
  << Q("social_coordination", 5),
     Q("social_stratification", 5),
     Q("leadership", 5),
     Q("exchange_networks", 5),
     Q("resource_inequality", 5),
     Q("scarcity_response", 5),
     Q("shared_practices", 10),
     Q("bonding_structures", 10),
     Q("deception", 10),
     Q("disruption_response", 10),
     Q("personality_effects", 10),
     Q("convergence_divergence", 5),
     Q("automation_threshold", 5),
     Q("novel_behaviors", 5),
     Q("feasibility", 5) >>

\* a filter that lets every question through
QuestionAppliesAlways(q, n) == TRUE

\* a filter that compares strictly
QuestionAppliesStrict(q, n) == q.min_agents < n

\* q["min_agents"] <= args.agents
QuestionApplies(q, n) == q.min_agents <= n

\* [q for q in questions if q["min_agents"] <= n]
RECURSIVE FilterQuestions(_, _)
FilterQuestions(questions, n) ==
  IF questions = <<>> THEN <<>>
  ELSE LET rest == FilterQuestions(Tail(questions), n)
       IN IF QuestionApplies(Head(questions), n)
          THEN <<Head(questions)>> \o rest
          ELSE rest


(***************************************************************************)
(* What the inference service may send back.                               *)
(***************************************************************************)
\* text that json.loads rejects
Invalid == [t |-> "invalid", s |-> "", keys |-> <<>>, items |-> <<>>]

\* a variable not assigned yet
Unset == [t |-> "unset", s |-> "", keys |-> <<>>, items |-> <<>>]

\* question ids the service may use: an id applicable from 5 agents, an id
\* applicable from 10 agents, and two ids that are not in the catalog
ResponseIds ==
  {"social_coordination", "shared_practices", "predictions", "unlisted_question"}

\* a prediction object as the prompt asks for it
Pred(q) == Dict(<<"question_id", "confidence">>, <<Str(q), Str("high")>>)

\* a prediction object without question_id
PredNoId == Dict(<<"prediction">>, <<Str("text")>>)

\* a prediction object whose confidence is not a string
PredNumConf == Dict(<<"question_id", "confidence">>, <<Str("social_coordination"), Num>>)

SeqsUpTo(S, n) == UNION {[1..k -> S] : k \in 0..n}

\* lists of prediction objects
PredLists == SeqsUpTo({Pred(q) : q \in ResponseIds}, MaxPreds)

QidOf(p) == Get(p, "question_id", Unset).s

DistinctIds(P) == \A i, j \in 1..Len(P) : QidOf(P[i]) = QidOf(P[j]) => i = j

\* shape (a): the bare array
Bare(P) == List(P)

\* shape (b): the array wrapped in an object
Wrapped(P) == Dict(<<"predictions">>, <<List(P)>>)

\* shape (c): an object keyed by question id, values in encounter order
Keyed(P) == Dict([i \in 1..Len(P) |-> QidOf(P[i])], P)

\* other valid JSON the service may produce
OddResponses ==
  { Num, Str("sorry"),
    Dict(<<"note">>, <<Num>>),
    Dict(<<"social_coordination", "note">>, <<Pred("social_coordination"), Str("x")>>),
    Dict(<<"predictions">>, <<Num>>),
    Dict(<<"predictions">>, <<Str("none")>>),
    List(<<Num>>),
    List(<<Pred("social_coordination"), Str("x")>>),
    List(<<PredNoId>>),
    List(<<PredNumConf>>),
    Pred("social_coordination") }

RegContents ==
  {Invalid} \cup OddResponses
    \cup {Bare(P) : P \in PredLists}
    \cup {Wrapped(P) : P \in PredLists}
    \cup {Keyed(P) : P \in {X \in PredLists : DistinctIds(X)}}

(***************************************************************************)
(* pre-register.py, query_llm: the parse of the response content.          *)
(* parsed: FALSE when the function exits; raw_echo: the raw text is        *)
(* printed; value: the returned object.                                    *)
(***************************************************************************)
\* list(parsed.values()) if all(isinstance(v, dict) ...) else [parsed]
KeyedToList(parsed) ==
  IF AllValuesDicts(parsed) THEN parsed.items ELSE <<parsed>>

ParsePredictions(content) ==
  IF content.t = "invalid"
  THEN [parsed |-> FALSE, raw_echo |-> TRUE, value |-> Unset]
  ELSE IF IsList(content)
  THEN [parsed |-> TRUE, raw_echo |-> FALSE,
        value |-> Dict(<<"predictions">>, <<content>>)]
  ELSE IF IsDict(content)
  THEN IF Has(content, "predictions")
       THEN [parsed |-> TRUE, raw_echo |-> FALSE, value |-> content]
       ELSE [parsed |-> TRUE, raw_echo |-> FALSE,
             value |-> Dict(<<"predictions">>, <<List(KeyedToList(content))>>)]
  ELSE [parsed |-> FALSE, raw_echo |-> FALSE, value |-> Unset]

\* result.get("predictions", [])
PredictionsOf(result) == Get(result, "predictions", List(<<>>))


(***************************************************************************)
(* What the comparison model may send back (compare-run.py).               *)
(***************************************************************************)
Comparison(q, v) ==
  Dict(<<"question_id", "verdict", "surprise_factor">>, <<Str(q), v, Num>>)

FullComparison(cs) ==
  Dict(<<"comparisons", "overall_summary", "most_interesting_divergences",
         "recapitulation_assessment">>,
       <<List(cs), Str("summary"), List(<<Str("d1")>>), Str("recap")>>)

CmpContents ==
  { Invalid, Num, List(<<>>),
    Dict(<<>>, <<>>),
    Dict(<<"comparisons">>, <<List(<<Comparison("social_coordination", Str("confirmed"))>>)>>),
    Dict(<<"overall_summary">>, <<Num>>),
    FullComparison(<<>>),
    FullComparison(<<Comparison("social_coordination", Str("divergent"))>>),
    FullComparison(<<Comparison("social_coordination", Str("maybe"))>>),
    FullComparison(<<Comparison("social_coordination", Num)>>),
    FullComparison(<<Str("x")>>) }

\* compare-run.py, query_llm: json.loads(content), any JSON value is returned
ParseComparison(content) ==
  IF content.t = "invalid"
  THEN [parsed |-> FALSE, raw_echo |-> TRUE, value |-> Unset]
  ELSE [parsed |-> TRUE, raw_echo |-> FALSE, value |-> content]

\* generate_markdown_report raises on this comparison: .get on a value that
\* is no dict, iteration over a value that is no list, .upper() on a verdict
\* that is no string, str + non-str for the summary and the assessment
ReportRaises(c) ==
  \/ ~IsDict(c)
  \/ ~IsList(Get(c, "comparisons", List(<<>>)))
  \/ \E i \in 1..Len(Get(c, "comparisons", List(<<>>)).items) :
       LET x == Get(c, "comparisons", List(<<>>)).items[i]
       IN ~IsDict(x) \/ Get(x, "verdict", Str("unknown")).t # "str"
  \/ Get(c, "overall_summary", Str("(no summary provided)")).t # "str"
  \/ Get(c, "recapitulation_assessment", Str("")).t # "str"

(***************************************************************************)
(* The outcome snapshot: the topic keys extract_run_outcomes assigns.      *)
(***************************************************************************)
TopicQueries ==
  << "run", "population", "death_causes", "trade", "discoveries",
     "social_constructs", "deception", "final_world_state", "conflict",
     "ledger_summary", "event_distribution", "tick_range" >>

\* final_world_state is assigned only when world_snapshots has a row
SnapshotKeys(has_world_snapshot) ==
  {TopicQueries[i] : i \in 1..Len(TopicQueries)}
    \ (IF has_world_snapshot THEN {} ELSE {"final_world_state"})

(***************************************************************************)
(* The simulation tables and the SQL the extractor runs on them.  A table  *)
(* is the sequence of its rows in storage order; only the columns the      *)
(* queries name are kept.                                                  *)
(***************************************************************************)
\* SQL NULL in an integer column, None in the snapshot (ticks, ids and
\* quantities are never negative)
NULL == -1

\* SQL NULL in a text column
NULLTEXT == "NULL"

\* a set of integers in ascending order
Ascending(S) ==
  [p \in 1..Cardinality(S) |-> CHOOSE x \in S : Cardinality({y \in S : y < x}) = p - 1]

\* MIN(col) and MAX(col): NULL over no row
Min(S) == IF S = {} THEN NULL ELSE CHOOSE x \in S : \A y \in S : x <= y

Max(S) == IF S = {} THEN NULL ELSE CHOOSE x \in S : \A y \in S : x >= y

\* SUM over the rows at the indices I of an integer column
RECURSIVE Sum(_, _)
Sum(col, I) ==
  IF I = {} THEN 0
  ELSE LET i == CHOOSE x \in I : TRUE IN col[i] + Sum(col, I \ {i})

\* AVG: NULL over no row, else the mean (the fraction is dropped)
Avg(col, I) == IF I = {} THEN NULL ELSE Sum(col, I) \div Cardinality(I)

\* ORDER BY k (ascending): rows with equal k keep their storage order
OrderBy(rows, k) ==
  LET Place(i) == Cardinality({j \in 1..Len(rows) : k[j] < k[i]})
                    + Cardinality({j \in 1..i : k[j] = k[i]})
  IN [p \in 1..Len(rows) |-> rows[CHOOSE i \in 1..Len(rows) : Place(i) = p]]

\* GROUP BY key: the groups (sets of row indices among I), in the order in
\* which each key first occurs
Groups(key, I) ==
  LET first == {i \in I : \A j \in I : key[j] = key[i] => i <= j}
      order == Ascending(first)
  IN [g \in 1..Len(order) |-> {j \in I : key[j] = key[order[g]]}]

\* GROUP BY key ... ORDER BY count DESC
GroupsByCountDesc(key, I) ==
  LET groups == Groups(key, I)
  IN OrderBy(groups, [g \in 1..Len(groups) |-> 0 - Cardinality(groups[g])])

Column(rows, c) == [i \in 1..Len(rows) |-> rows[i][c]]

(***************************************************************************)
(* compare-run.py, extract_run_outcomes: one operator per topic query.     *)
(***************************************************************************)
\* SELECT * FROM simulation_runs WHERE id = %s; fetchone()
RunRows(t, run_id) == {i \in DOMAIN t.simulation_runs : t.simulation_runs[i].id = run_id}

RunTopic(t, run_id) ==
  LET run == t.simulation_runs[Min(RunRows(t, run_id))]
  IN [id |-> run.id, name |-> run.name, status |-> run.status,
      max_ticks |-> run.max_ticks]

PopulationTopic(t) ==
  LET a    == t.agents
      dead == {i \in DOMAIN a : a[i].died_at_tick # NULL}
      span == [i \in 1..Len(a) |-> a[i].died_at_tick - a[i].born_at_tick]
  IN [total_agents   |-> Len(a),
      alive_at_end   |-> Cardinality({i \in DOMAIN a : a[i].died_at_tick = NULL}),
      total_deaths   |-> Cardinality(dead),
      born_in_sim    |-> Cardinality({i \in DOMAIN a : a[i].parent_a # NULL}),
      seed_agents    |-> Cardinality({i \in DOMAIN a : a[i].generation = 0}),
      max_generation |-> Max({a[i].generation : i \in 1..Len(a)}),
      avg_lifespan   |-> Avg(span, dead)]

DeathCausesTopic(t) ==
  LET a      == t.agents
      cause  == Column(a, "cause_of_death")
      groups == GroupsByCountDesc(cause,
                  {i \in DOMAIN a : a[i].died_at_tick # NULL /\ a[i].cause_of_death # NULLTEXT})
  IN [g \in 1..Len(groups) |->
        [cause_of_death |-> cause[Min(groups[g])], count |-> Cardinality(groups[g])]]

TradeTopic(t) ==
  LET e      == t.events
      trades == {i \in DOMAIN e : e[i].event_type \in {"Trade", "TRADE"}}
  IN [total_trades     |-> Cardinality(trades),
      unique_traders   |-> Cardinality({e[i].agent_id : i \in trades} \ {NULLTEXT}),
      first_trade_tick |-> Min({e[i].tick : i \in trades}),
      last_trade_tick  |-> Max({e[i].tick : i \in trades})]

\* ORDER BY tick; "agent_id": str(row["agent_id"]) if row["agent_id"] else None
DiscoveriesTopic(t) ==
  LET rows == OrderBy(t.discoveries, Column(t.discoveries, "tick"))
  IN [i \in 1..Len(rows) |->
        [knowledge |-> rows[i].knowledge_item, tick |-> rows[i].tick,
         method |-> rows[i].method, agent_id |-> rows[i].agent_id]]

\* ORDER BY founded_at_tick
SocialConstructsTopic(t) ==
  OrderBy(t.social_constructs, Column(t.social_constructs, "founded_at_tick"))

DeceptionTopic(t) ==
  LET d == t.deception_records
  IN [total_lies       |-> Len(d),
      discovered_lies  |-> Cardinality({i \in DOMAIN d : d[i].discovered}),
      unique_deceivers |-> Cardinality({d[i].deceiver : i \in 1..Len(d)} \ {NULLTEXT})]

\* ORDER BY tick DESC LIMIT 1; fetchone()
FinalSnapshot(t) ==
  LET w == t.world_snapshots
  IN OrderBy(w, [i \in 1..Len(w) |-> 0 - w[i].tick])[1]

ConflictTopic(t) ==
  LET e == t.events
  IN [combat_events    |-> Cardinality({i \in DOMAIN e : e[i].event_type \in {"Combat", "COMBAT"}}),
      theft_events     |-> Cardinality({i \in DOMAIN e : e[i].event_type \in {"Theft", "THEFT"}}),
      diplomacy_events |-> Cardinality({i \in DOMAIN e : e[i].event_type \in {"Diplomacy", "DIPLOMACY"}})]

LedgerSummaryTopic(t) ==
  LET l      == t.ledger
      groups == GroupsByCountDesc(Column(l, "entry_type"), 1..Len(l))
  IN [g \in 1..Len(groups) |->
        [entry_type     |-> l[Min(groups[g])].entry_type,
         count          |-> Cardinality(groups[g]),
         total_quantity |-> Sum(Column(l, "quantity"), groups[g])]]

EventDistributionTopic(t) ==
  LET e      == t.events
      groups == GroupsByCountDesc(Column(e, "event_type"), 1..Len(e))
  IN [g \in 1..Len(groups) |->
        [event_type |-> e[Min(groups[g])].event_type, count |-> Cardinality(groups[g])]]

TickRangeTopic(t) ==
  LET ticks == {t.events[i].tick : i \in 1..Len(t.events)}
  IN [first_tick |-> Min(ticks), last_tick |-> Max(ticks)]

\* an extractor whose event queries carry WHERE run_id = %s, the events
\* recorded being those of the run stored first
ExtractScopedToRun(t, run_id) ==
  LET own == Min(RunRows(t, run_id)) = 1
      s == IF own THEN t ELSE [t EXCEPT !.events = <<>>]
      always ==
        [run               |-> RunTopic(t, run_id),
         population        |-> PopulationTopic(t),
         death_causes      |-> DeathCausesTopic(t),
         trade             |-> TradeTopic(s),
         discoveries       |-> DiscoveriesTopic(t),
         social_constructs |-> SocialConstructsTopic(t),
         deception         |-> DeceptionTopic(t),
         conflict          |-> ConflictTopic(s),
         ledger_summary    |-> LedgerSummaryTopic(t),
         event_distribution |-> EventDistributionTopic(s),
         tick_range        |-> TickRangeTopic(s)]
  IN IF t.world_snapshots # <<>>
     THEN always @@ [final_world_state |->
                       [tick |-> FinalSnapshot(t).tick,
                        total_resources |-> FinalSnapshot(t).total_resources]]
     ELSE always

\* the snapshot returned for a run that exists
extract_run_outcomes(t, run_id) ==
  LET always ==
        [run               |-> RunTopic(t, run_id),
         population        |-> PopulationTopic(t),
         death_causes      |-> DeathCausesTopic(t),
         trade             |-> TradeTopic(t),
         discoveries       |-> DiscoveriesTopic(t),
         social_constructs |-> SocialConstructsTopic(t),
         deception         |-> DeceptionTopic(t),
         conflict          |-> ConflictTopic(t),
         ledger_summary    |-> LedgerSummaryTopic(t),
         event_distribution |-> EventDistributionTopic(t),
         tick_range        |-> TickRangeTopic(t)]
  IN IF t.world_snapshots # <<>>
     THEN always @@ [final_world_state |->
                       [tick |-> FinalSnapshot(t).tick,
                        total_resources |-> FinalSnapshot(t).total_resources]]
     ELSE always

(***************************************************************************)
(* compare-run.py, generate_markdown_report.  The report text is the       *)
(* sequence of its lines; a line is the section it belongs to, what it is  *)
(* (heading, table header, row, ...) and the values formatted into it.     *)
(***************************************************************************)
Line(section, kind, cells) == [section |-> section, kind |-> kind, cells |-> cells]

\* a JSON number, true, false or null, s its text
NumV(x) == [t |-> "num", s |-> x, keys |-> <<>>, items |-> <<>>]

\* f"{v}" of a JSON string or scalar as json.loads gives it
PyStr(v) ==
  IF v.t = "num"
  THEN CASE v.s = "true"  -> "True"
         [] v.s = "false" -> "False"
         [] v.s = "null"  -> "None"
         [] OTHER         -> v.s
  ELSE v.s

\* the truth value Python gives a JSON value
Truthy(v) ==
  CASE v.t = "str"  -> v.s # ""
    [] v.t = "num"  -> v.s \notin {"0", "false", "null"}
    [] v.t = "list" -> v.items # <<>>
    [] v.t = "dict" -> v.keys # <<>>
    [] OTHER        -> FALSE

\* f"{x}" of an integer column value, None for NULL
Fmt(x) == IF x = NULL THEN "None" ELSE ToString(x)

\* f"{s}" of a text column value, None for NULL
FmtText(s) == IF s = NULLTEXT THEN "None" ELSE s

\* str.upper() on the verdict strings of the model
Upper(s) ==
  CASE s = "confirmed"           -> "CONFIRMED"
    [] s = "partially_confirmed" -> "PARTIALLY_CONFIRMED"
    [] s = "divergent"           -> "DIVERGENT"
    [] s = "insufficient_data"   -> "INSUFFICIENT_DATA"
    [] s = "maybe"               -> "MAYBE"
    [] s = "unknown"             -> "UNKNOWN"
    [] s = "CONFIRMED"           -> "CONFIRMED"

\* the verdict strings of the model as Python orders them (by code point)
CodePointOrder ==
  << "CONFIRMED", "confirmed", "divergent", "insufficient_data", "maybe",
     "partially_confirmed", "unknown" >>

Rank(s) == CHOOSE i \in 1..Len(CodePointOrder) : CodePointOrder[i] = s

\* the title block
ReportHeader(now, predictions_file, o) ==
  << Line("header", "title", <<>>),
     Line("header", "generated", <<now>>),
     Line("header", "predictions_file", <<predictions_file>>),
     Line("header", "run_id", <<o.run.id>>),
     Line("header", "run_status", <<o.run.status>>) >>

\* config.get(k, '?')
ConfigValue(config, k) == PyStr(Get(config, k, Str("?")))

ConfigurationTable(registration) ==
  LET config == Get(registration, "experiment_config", Dict(<<>>, <<>>))
  IN << Line("configuration", "heading", <<>>),
        Line("configuration", "table_header", <<"Parameter", "Value">>),
        Line("configuration", "row", <<"Agent count", ConfigValue(config, "agent_count")>>),
        Line("configuration", "row", <<"Tick count", ConfigValue(config, "tick_count")>>),
        Line("configuration", "row",
             <<"Personality mode", ConfigValue(config, "personality_mode")>>),
        Line("configuration", "row",
             <<"Knowledge level", ConfigValue(config, "knowledge_level")>>),
        Line("configuration", "row",
             <<"Reproduction",
               IF Truthy(Get(config, "reproduction_enabled", NumV("true")))
               THEN "enabled" ELSE "disabled">>),
        Line("configuration", "row",
             <<"Prediction model", PyStr(Get(registration, "model", Str("?")))>>) >>

\* outcomes.get(topic, {}).get(col, '?')
Metric(o, topic, col) ==
  IF topic \in DOMAIN o /\ col \in DOMAIN o[topic] THEN Fmt(o[topic][col]) ELSE "?"

\* outcomes.get(topic, [])
TopicList(o, topic) == IF topic \in DOMAIN o THEN o[topic] ELSE <<>>

SummaryTable(o) ==
  << Line("summary", "heading", <<>>),
     Line("summary", "table_header", <<"Metric", "Value">>),
     Line("summary", "row", <<"Tick range", Metric(o, "tick_range", "first_tick"),
                              Metric(o, "tick_range", "last_tick")>>),
     Line("summary", "row", <<"Total agents created", Metric(o, "population", "total_agents")>>),
     Line("summary", "row", <<"Alive at end", Metric(o, "population", "alive_at_end")>>),
     Line("summary", "row", <<"Total deaths", Metric(o, "population", "total_deaths")>>),
     Line("summary", "row", <<"Born in simulation", Metric(o, "population", "born_in_sim")>>),
     Line("summary", "row", <<"Max generation", Metric(o, "population", "max_generation")>>),
     Line("summary", "row", <<"Total trades", Metric(o, "trade", "total_trades")>>),
     Line("summary", "row", <<"First trade at tick", Metric(o, "trade", "first_trade_tick")>>),
     Line("summary", "row", <<"Unique traders", Metric(o, "trade", "unique_traders")>>),
     Line("summary", "row", <<"Combat events", Metric(o, "conflict", "combat_events")>>),
     Line("summary", "row", <<"Theft events", Metric(o, "conflict", "theft_events")>>),
     Line("summary", "row", <<"Diplomacy events", Metric(o, "conflict", "diplomacy_events")>>),
     Line("summary", "row", <<"Total lies told", Metric(o, "deception", "total_lies")>>),
     Line("summary", "row", <<"Lies discovered", Metric(o, "deception", "discovered_lies")>>),
     Line("summary", "row", <<"Unique deceivers", Metric(o, "deception", "unique_deceivers")>>),
     Line("summary", "row",
          <<"Social constructs formed", ToString(Len(TopicList(o, "social_constructs")))>>),
     Line("summary", "row",
          <<"Discoveries made", ToString(Len(TopicList(o, "discoveries")))>>) >>

\* the number of discoveries the timeline shows at most
TimelineCap == 30

\* a timeline that is not capped
TimelineRowsAll(discoveries) == discoveries

\* discoveries[:30]
TimelineRows(discoveries) ==
  SubSeq(discoveries, 1,
         IF Len(discoveries) > TimelineCap THEN TimelineCap ELSE Len(discoveries))

\* if discoveries: heading, table header, the rows, the footnote
DiscoveryTimeline(o) ==
  LET discoveries == TopicList(o, "discoveries")
      shown       == TimelineRows(discoveries)
  IN IF discoveries = <<>> THEN <<>>
     ELSE << Line("discoveries", "heading", <<>>),
             Line("discoveries", "table_header", <<"Tick", "Knowledge", "Method">>) >>
          \o [i \in 1..Len(shown) |->
                Line("discoveries", "row",
                     <<Fmt(shown[i].tick), FmtText(shown[i].knowledge),
                       FmtText(shown[i].method)>>)]
          \o (IF Len(discoveries) > TimelineCap
              THEN <<Line("discoveries", "footnote",
                          <<ToString(Len(discoveries) - TimelineCap)>>)>>
              ELSE <<>>)

\* if constructs: heading, table header, one row per construct
SocialConstructsTable(o) ==
  LET constructs == TopicList(o, "social_constructs")
  IN IF constructs = <<>> THEN <<>>
     ELSE << Line("social_constructs", "heading", <<>>),
             Line("social_constructs", "table_header",
                  <<"Name", "Category", "Founded (tick)", "Disbanded (tick)">>) >>
          \o [i \in 1..Len(constructs) |->
                Line("social_constructs", "row",
                     <<FmtText(constructs[i].name), FmtText(constructs[i].category),
                       Fmt(constructs[i].founded_at_tick),
                       Fmt(constructs[i].disbanded_at_tick)>>)]

\* comparison.get("comparisons", [])
ComparisonsOf(comparison) == Get(comparison, "comparisons", List(<<>>)).items

\* c.get("verdict", "unknown")
VerdictOf(c) == Get(c, "verdict", Str("unknown"))

\* verdict_counts: one (verdict, count) item per verdict, in the order in
\* which the verdicts first occur
VerdictCounts(comparisons) ==
  LET v      == [i \in 1..Len(comparisons) |-> VerdictOf(comparisons[i])]
      groups == Groups(v, 1..Len(v))
  IN [g \in 1..Len(groups) |->
        [verdict |-> v[Min(groups[g])].s, count |-> Cardinality(groups[g])]]

\* the items as the dict holds them
UnsortedItems(items) == items

\* sorted(verdict_counts.items())
SortedItems(items) == OrderBy(items, [g \in 1..Len(items) |-> Rank(items[g].verdict)])

VerdictSummary(comparison) ==
  LET items == SortedItems(VerdictCounts(ComparisonsOf(comparison)))
  IN << Line("verdicts", "heading", <<>>),
        Line("verdicts", "table_header", <<"Verdict", "Count">>) >>
     \o [g \in 1..Len(items) |->
           Line("verdicts", "row", <<items[g].verdict, ToString(items[g].count)>>)]

\* the prediction text of the first registered prediction with this question id
OriginalPrediction(registration, qid) ==
  LET preds == Get(registration, "predictions", List(<<>>)).items
      hits  == {i \in 1..Len(preds) : Get(preds[i], "question_id", NumV("null")) = qid}
  IN IF hits = {} THEN ""
     ELSE PyStr(Get(preds[Min(hits)], "prediction", Str("")))

\* the section of one comparison
ComparisonSection(registration, c) ==
  LET qid        == Get(c, "question_id", Str("unknown"))
      verdict    == Upper(VerdictOf(c).s)
      evidence   == Get(c, "evidence", Str(""))
      divergence == Get(c, "divergence_notes", Str(""))
      surprise   == Get(c, "surprise_factor", Str("?"))
  IN << Line("comparisons", "comparison_heading",
             <<PyStr(qid), verdict, PyStr(surprise)>>),
        Line("comparisons", "prediction", <<OriginalPrediction(registration, qid)>>),
        Line("comparisons", "evidence", <<PyStr(evidence)>>) >>
     \o (IF Truthy(divergence)
         THEN <<Line("comparisons", "divergence", <<PyStr(divergence)>>)>>
         ELSE <<>>)
     \o <<Line("comparisons", "rule", <<>>)>>

RECURSIVE ComparisonSections(_, _)
ComparisonSections(registration, comparisons) ==
  IF comparisons = <<>> THEN <<>>
  ELSE ComparisonSection(registration, Head(comparisons))
         \o ComparisonSections(registration, Tail(comparisons))

DetailedComparisons(registration, comparison) ==
  <<Line("comparisons", "heading", <<>>)>>
    \o ComparisonSections(registration, ComparisonsOf(comparison))

\* the overall summary, the enumerated divergences, the recapitulation assessment
OverallAssessment(comparison) ==
  LET divergences == Get(comparison, "most_interesting_divergences", List(<<>>))
      recap       == Get(comparison, "recapitulation_assessment", Str(""))
  IN << Line("assessment", "heading", <<>>),
        Line("assessment", "overall_summary",
             <<Get(comparison, "overall_summary", Str("(no summary provided)")).s>>) >>
     \o (IF Truthy(divergences)
         THEN <<Line("assessment", "divergences_heading", <<>>)>>
              \o [i \in 1..Len(divergences.items) |->
                    Line("assessment", "divergence", <<ToString(i), PyStr(divergences.items[i])>>)]
         ELSE <<>>)
     \o (IF Truthy(recap)
         THEN << Line("assessment", "recapitulation_heading", <<>>),
                 Line("assessment", "recapitulation", <<recap.s>>) >>
         ELSE <<>>)

ReportFooter == << Line("footer", "rule", <<>>), Line("footer", "generated_by", <<>>) >>

\* the report text; now is what datetime.now() returns during the call
generate_markdown_report(now, predictions_file, registration, o, comparison) ==
  ReportHeader(now, predictions_file, o)
    \o ConfigurationTable(registration)
    \o SummaryTable(o)
    \o DiscoveryTimeline(o)
    \o SocialConstructsTable(o)
    \o <<Line("verdicts", "section_heading", <<>>)>>
    \o VerdictSummary(comparison)
    \o DetailedComparisons(registration, comparison)
    \o OverallAssessment(comparison)
    \o ReportFooter

(***************************************************************************)
(* State.                                                                  *)
(***************************************************************************)
VARIABLES
  phase,                \* "register" (pre-register.py) or "compare" (compare-run.py)
  pc,                   \* position in main()
  env,                  \* environment variables and the input file
  args,                 \* command-line arguments
  db,                   \* the simulation tables read by the extractor
  pre_registrations,    \* the pre_registrations table, committed rows
  applicable_questions, \* main: the filtered catalog
  skipped,              \* main: the number of questions left out, -1 before the filter ran
  requests,             \* inference requests sent
  response,             \* how the inference request ended
  content,              \* query_llm: the content of the response
  result,               \* what query_llm returned
  registration,         \* the registration document (written, or loaded)
  outcomes,             \* the outcome snapshot's keys
  files,                \* artifact files written
  conn,                 \* the datastore connection
  db_log,               \* datastore calls attempted, in order
  db_fault,             \* the datastore call of the persistence step that failed
  stderr,               \* diagnostics printed
  error,                \* why the invocation terminated
  exit_code,            \* the process exit status
  tables,               \* extractor under test: the simulation tables
  writes,               \* extractor under test: changes made to the tables by the simulation
  extractions,          \* extractor under test: the calls made, with what each returned
  render_in,            \* report step under test: its inputs
  reports,              \* report step under test: the report texts generated, in order
  comparison_data,      \* report step under test: the comparison JSON written
  render_error,         \* report step under test: why it ended early
  saves                 \* persistence under test: the calls made, with how each ended

vars ==
  << phase, pc, env, args, db, pre_registrations, applicable_questions, skipped,
     requests, response, content, result, registration, outcomes, files, conn,
     db_log, db_fault, stderr, error, exit_code,
     tables, writes, extractions, render_in, reports, comparison_data, render_error,
     saves >>

\* the state of the functions checked on their own
unit_vars ==
  << tables, writes, extractions, render_in, reports, comparison_data, render_error,
     saves >>

AgentCounts == {0, 4, 5, 8, 9, 10, 50}

RunIds == {"r1", "r2"}

NoDocument == [research_questions |-> <<>>, agent_count |-> 0, predictions |-> Unset]

\* a registration document on disk, as the compare phase loads it
LoadedDocument(P) ==
  [research_questions |-> FilterQuestions(RESEARCH_QUESTIONS, 5), agent_count |-> 5,
   predictions |-> List(P)]

Row(doc) ==
  [experiment_config |-> doc.agent_count, predictions |-> doc.predictions,
   run_id |-> "null", comparison_report |-> Unset]

Env == [OPENROUTER_API_KEY : BOOLEAN, LLM_DEFAULT_API_KEY : BOOLEAN,
        DATABASE_URL : BOOLEAN, input_file : BOOLEAN]

\* no simulation data
NoTables ==
  [simulation_runs |-> <<>>, agents |-> <<>>, events |-> <<>>, discoveries |-> <<>>,
   social_constructs |-> <<>>, deception_records |-> <<>>, world_snapshots |-> <<>>,
   ledger |-> <<>>]

NoRenderInput ==
  [content |-> Unset, predictions_file |-> "", registration |-> Unset, outcomes |-> <<>>]

\* during an invocation of a script the functions are not called on their own
UnitIdle ==
  /\ tables = NoTables
  /\ writes = 0
  /\ extractions = <<>>
  /\ render_in = NoRenderInput
  /\ reports = <<>>
  /\ comparison_data = Unset
  /\ render_error = "none"
  /\ saves = <<>>

InitCommon ==
  /\ pc = "load"
  /\ env \in Env
  /\ applicable_questions = <<>>
  /\ skipped = -1
  /\ requests = 0
  /\ response = "none"
  /\ content = Unset
  /\ result = Unset
  /\ outcomes = {}
  /\ files = {}
  /\ conn = "none"
  /\ db_log = <<>>
  /\ db_fault = "none"
  /\ stderr = {}
  /\ error = "none"
  /\ exit_code = 0

InitRegister ==
  /\ phase = "register"
  /\ args \in [agents : AgentCounts, save_to_db : BOOLEAN, run_id : {"r1"}]
  /\ db = [simulation_runs |-> {}, has_world_snapshot |-> FALSE]
  /\ pre_registrations = <<>>
  /\ registration = NoDocument

InitCompare ==
  /\ phase = "compare"
  /\ args \in [agents : {5}, save_to_db : BOOLEAN, run_id : RunIds]
  /\ db \in [simulation_runs : {{}, {"r1"}, {"r1", "r2"}}, has_world_snapshot : BOOLEAN]
  /\ registration \in {LoadedDocument(<<>>), LoadedDocument(<<Pred("social_coordination")>>)}
  /\ pre_registrations \in {<<>>, <<Row(LoadedDocument(<<Pred("social_coordination")>>))>>}

Init == InitCommon /\ UnitIdle /\ (InitRegister \/ InitCompare)

\* os.environ.get("OPENROUTER_API_KEY") or os.environ.get("LLM_DEFAULT_API_KEY")
get_api_key == env.OPENROUTER_API_KEY \/ env.LLM_DEFAULT_API_KEY

\* print(..., file=sys.stderr); sys.exit(1)
Exit(kind, msgs) ==
  /\ pc' = "done"
  /\ exit_code' = 1
  /\ error' = kind
  /\ stderr' = stderr \cup msgs

\* an exception nobody catches: traceback, exit status 1
Raise == Exit("UncaughtException", {"TRACEBACK"})


(***************************************************************************)
(* The inference service: requests.post + raise_for_status, then           *)
(* response.json() and result["choices"][0]["message"]["content"].         *)
(***************************************************************************)
Replies(contents) ==
  {[kind |-> k, content |-> Unset] : k \in {"transport", "http", "envelope"}}
    \cup {[kind |-> "ok", content |-> c] : c \in contents}

\* a handler that reports the failed request and goes on
OnRequestExceptionGoOn(kind) ==
  /\ pc' = IF phase = "register" THEN "write" ELSE "report"
  /\ error' = "InferenceError"
  /\ stderr' = stderr \cup {"ERROR"}
  /\ UNCHANGED exit_code

\* except requests.exceptions.RequestException: print, print the body, sys.exit(1)
OnRequestException(kind) ==
  Exit("InferenceError",
       {"ERROR"} \cup (IF kind = "http" THEN {"RESPONSE_BODY"} ELSE {}))

(***************************************************************************)
(* pre-register.py, main                                                   *)
(***************************************************************************)
\* a check that lets an empty question list through
NoneApplicableIgnored(applicable) == FALSE

\* if not applicable_questions: print, sys.exit(1)
NoneApplicable(applicable) == applicable = <<>>

\* load_config, get_api_key, the applicability filter
RegLoad ==
  /\ phase = "register" /\ pc = "load"
  /\ IF ~env.input_file \/ ~get_api_key
     THEN /\ Exit("ConfigurationError", {"ERROR"})
          /\ UNCHANGED <<applicable_questions, skipped>>
     ELSE LET applicable == FilterQuestions(RESEARCH_QUESTIONS, args.agents)
          IN /\ applicable_questions' = applicable
             /\ skipped' = Len(RESEARCH_QUESTIONS) - Len(applicable)
             /\ IF NoneApplicable(applicable)
                THEN Exit("NoApplicableQuestions", {"ERROR"})
                ELSE pc' = "query" /\ UNCHANGED <<exit_code, error, stderr>>
  /\ UNCHANGED <<unit_vars, phase, env, args, db, pre_registrations, requests, response, content,
                 result, registration, outcomes, files, conn, db_log, db_fault>>

\* build_prediction_prompt, query_llm
RegQueryLLM ==
  /\ phase = "register" /\ pc = "query"
  /\ \E reply \in Replies(RegContents) :
       /\ requests' = requests + 1
       /\ response' = reply.kind
       /\ content' = reply.content
       /\ IF reply.kind \in {"transport", "http"}
          THEN OnRequestException(reply.kind) /\ UNCHANGED result
          ELSE IF reply.kind = "envelope"
          THEN Raise /\ UNCHANGED result
          ELSE LET r == ParsePredictions(reply.content)
               IN IF r.parsed
                  THEN /\ result' = r.value
                       /\ pc' = "write"
                       /\ UNCHANGED <<exit_code, error, stderr>>
                  ELSE /\ Exit("MalformedResponse",
                               {"ERROR"} \cup (IF r.raw_echo THEN {"RAW_RESPONSE"} ELSE {}))
                       /\ UNCHANGED result
  /\ UNCHANGED <<unit_vars, phase, env, args, db, pre_registrations, applicable_questions, skipped,
                 registration, outcomes, files, conn, db_log, db_fault>>

\* len(registration['predictions']) raises on a value without a length
HasNoLen(v) == v.t = "num"

\* assemble the registration document, json.dump it, print the count
RegWrite ==
  /\ phase = "register" /\ pc = "write"
  /\ registration' = [research_questions |-> applicable_questions,
                      agent_count |-> args.agents,
                      predictions |-> PredictionsOf(result)]
  /\ files' = files \cup {"registration"}
  /\ IF HasNoLen(PredictionsOf(result))
     THEN Raise
     ELSE pc' = "save" /\ UNCHANGED <<exit_code, error, stderr>>
  /\ UNCHANGED <<unit_vars, phase, env, args, db, pre_registrations, applicable_questions, skipped,
                 requests, response, content, result, outcomes, conn, db_log, db_fault>>

\* INSERT INTO pre_registrations (...) VALUES (...) RETURNING id: the table
\* has no unique column but the generated id, so the row is always added
Insert(store, row) == Append(store, row)

\* save_to_db: the datastore calls attempted up to the one that fails
SaveCalls(fault) ==
  CASE fault = "import"  -> <<>>
    [] fault = "connect" -> <<"connect">>
    [] fault = "execute" -> <<"connect", "create_table", "insert">>
    [] fault = "commit"  -> <<"connect", "create_table", "insert", "commit">>
    [] OTHER             -> <<"connect", "create_table", "insert", "commit", "close">>

\* a handler that gives up on a failed persistence step
OnDatastoreExceptionFatal == Exit("DatastoreError", {"ERROR"})

\* except Exception as e: print("WARNING: ...", file=sys.stderr)
OnDatastoreException ==
  /\ pc' = "summary"
  /\ stderr' = stderr \cup {"WARNING"}
  /\ UNCHANGED <<error, exit_code>>

\* the persistence step ended without an exception
Persisted == pc' = "summary" /\ UNCHANGED <<stderr, error, exit_code>>

\* if args.save_to_db: DATABASE_URL or a warning; save_to_db
RegSaveToDb ==
  /\ phase = "register" /\ pc = "save"
  /\ IF ~args.save_to_db
     THEN Persisted /\ UNCHANGED <<pre_registrations, conn, db_log, db_fault>>
     ELSE IF ~env.DATABASE_URL
     THEN /\ pc' = "summary"
          /\ stderr' = stderr \cup {"WARNING"}
          /\ UNCHANGED <<pre_registrations, conn, db_log, db_fault, error, exit_code>>
     ELSE \E fault \in {"none", "import", "connect", "execute", "commit"} :
            /\ db_fault' = fault
            /\ db_log' = db_log \o SaveCalls(fault)
            /\ conn' = CASE fault \in {"import", "connect"} -> conn
                         [] fault \in {"execute", "commit"} -> "open"
                         [] OTHER -> "closed"
            /\ pre_registrations' =
                 IF fault = "none"
                 THEN Insert(pre_registrations, Row(registration))
                 ELSE pre_registrations
            /\ IF fault = "none" THEN Persisted ELSE OnDatastoreException
  /\ UNCHANGED <<unit_vars, phase, env, args, db, applicable_questions, skipped, requests, response,
                 content, result, registration, outcomes, files>>

\* the summary loop raises: pred.get on a value that is no dict,
\* confidence.upper() on a value that is no string
SummaryRaises(preds) ==
  CASE preds.t = "list" ->
         \E i \in 1..Len(preds.items) :
           \/ ~IsDict(preds.items[i])
           \/ Get(preds.items[i], "confidence", Str("?")).t # "str"
    [] preds.t = "dict" -> preds.keys # <<>>
    [] preds.t = "str"  -> preds.s # ""
    [] OTHER -> TRUE

\* print the prediction summary
RegSummary ==
  /\ phase = "register" /\ pc = "summary"
  /\ IF SummaryRaises(registration.predictions)
     THEN Raise
     ELSE pc' = "done" /\ UNCHANGED <<exit_code, error, stderr>>
  /\ UNCHANGED <<unit_vars, phase, env, args, db, pre_registrations, applicable_questions, skipped,
                 requests, response, content, result, registration, outcomes, files,
                 conn, db_log, db_fault>>


(***************************************************************************)
(* compare-run.py, main                                                    *)
(***************************************************************************)
\* load the registration file, read DATABASE_URL
CmpLoad ==
  /\ phase = "compare" /\ pc = "load"
  /\ IF ~env.input_file
     THEN Exit("ConfigurationError", {"ERROR"})
     ELSE IF registration.predictions.items = <<>>
     THEN Exit("NoPredictions", {"ERROR"})
     ELSE IF ~env.DATABASE_URL
     THEN Exit("ConfigurationError", {"ERROR"})
     ELSE pc' = "connect" /\ UNCHANGED <<exit_code, error, stderr>>
  /\ UNCHANGED <<unit_vars, phase, env, args, db, pre_registrations, applicable_questions, skipped,
                 requests, response, content, result, registration, outcomes, files,
                 conn, db_log, db_fault>>

\* get_db_connection: psycopg2.connect, or print and sys.exit(1)
CmpConnect ==
  /\ phase = "compare" /\ pc = "connect"
  /\ db_log' = Append(db_log, "connect")
  /\ \E connected \in BOOLEAN :
       IF connected
       THEN conn' = "open" /\ pc' = "extract" /\ UNCHANGED <<exit_code, error, stderr>>
       ELSE Exit("DatastoreError", {"ERROR"}) /\ UNCHANGED conn
  /\ UNCHANGED <<unit_vars, phase, env, args, db, pre_registrations, applicable_questions, skipped,
                 requests, response, content, result, registration, outcomes, files,
                 db_fault>>

\* the queries extract_run_outcomes issues after the run lookup
TopicCalls == [i \in 1..(Len(TopicQueries) - 1) |-> TopicQueries[i + 1]]

\* an extractor that goes on to the topic queries without the run
RunFoundAlways(run_id) == TRUE

\* run = cur.fetchone(); if not run: ... sys.exit(1)
RunFound(run_id) == run_id \in db.simulation_runs

\* extract_run_outcomes
CmpExtract ==
  /\ phase = "compare" /\ pc = "extract"
  /\ IF ~RunFound(args.run_id)
     THEN /\ db_log' = Append(db_log, "run")
          /\ Exit("RunNotFound", {"ERROR"})
          /\ UNCHANGED outcomes
     ELSE /\ db_log' = Append(db_log, "run") \o TopicCalls
          /\ outcomes' = SnapshotKeys(db.has_world_snapshot)
          /\ pc' = "query"
          /\ UNCHANGED <<exit_code, error, stderr>>
  /\ UNCHANGED <<unit_vars, phase, env, args, db, pre_registrations, applicable_questions, skipped,
                 requests, response, content, result, registration, files, conn,
                 db_fault>>

\* get_api_key, build_comparison_prompt, query_llm
CmpQueryLLM ==
  /\ phase = "compare" /\ pc = "query"
  /\ IF ~get_api_key
     THEN /\ Exit("ConfigurationError", {"ERROR"})
          /\ UNCHANGED <<requests, response, content, result>>
     ELSE \E reply \in Replies(CmpContents) :
            /\ requests' = requests + 1
            /\ response' = reply.kind
            /\ content' = reply.content
            /\ IF reply.kind \in {"transport", "http"}
               THEN OnRequestException(reply.kind) /\ UNCHANGED result
               ELSE IF reply.kind = "envelope"
               THEN Raise /\ UNCHANGED result
               ELSE LET r == ParseComparison(reply.content)
                    IN IF r.parsed
                       THEN /\ result' = r.value
                            /\ pc' = "report"
                            /\ UNCHANGED <<exit_code, error, stderr>>
                       ELSE /\ Exit("MalformedResponse", {"ERROR", "RAW_RESPONSE"})
                            /\ UNCHANGED result
  /\ UNCHANGED <<unit_vars, phase, env, args, db, pre_registrations, applicable_questions, skipped,
                 registration, outcomes, files, conn, db_log, db_fault>>

\* generate_markdown_report, write the report and the comparison JSON
CmpReport ==
  /\ phase = "compare" /\ pc = "report"
  /\ IF ReportRaises(result)
     THEN Raise /\ UNCHANGED files
     ELSE /\ files' = files \cup {"report", "comparison_json"}
          /\ pc' = "save"
          /\ UNCHANGED <<exit_code, error, stderr>>
  /\ UNCHANGED <<unit_vars, phase, env, args, db, pre_registrations, applicable_questions, skipped,
                 requests, response, content, result, registration, outcomes, conn,
                 db_log, db_fault>>

\* WHERE predictions = %s::jsonb
Matches(row) == row.predictions = registration.predictions

\* UPDATE pre_registrations SET run_id = %s, comparison_report = %s WHERE ...
Updated(rows) ==
  [i \in 1..Len(rows) |->
     IF Matches(rows[i])
     THEN [rows[i] EXCEPT !.run_id = args.run_id, !.comparison_report = result]
     ELSE rows[i]]

\* if args.save_to_db: the UPDATE in try/except; then conn.close()
CmpSaveToDb ==
  /\ phase = "compare" /\ pc = "save"
  /\ conn' = "closed"
  /\ IF ~args.save_to_db
     THEN /\ db_log' = Append(db_log, "close")
          /\ Persisted
          /\ UNCHANGED <<pre_registrations, db_fault>>
     ELSE LET rowcount == Cardinality({i \in 1..Len(pre_registrations) :
                                         Matches(pre_registrations[i])})
          IN \E fault \in {"none", "execute"} \cup (IF rowcount > 0 THEN {"commit"} ELSE {}) :
               /\ db_fault' = fault
               /\ db_log' = db_log \o
                    (CASE fault = "execute" -> <<"update", "close">>
                       [] rowcount > 0      -> <<"update", "commit", "close">>
                       [] OTHER             -> <<"update", "close">>)
               /\ pre_registrations' =
                    IF fault = "none" THEN Updated(pre_registrations) ELSE pre_registrations
               /\ IF fault = "none" THEN Persisted ELSE OnDatastoreException
  /\ UNCHANGED <<unit_vars, phase, env, args, db, applicable_questions, skipped, requests, response,
                 content, result, registration, outcomes, files>>

\* print the comparison summary
CmpSummary ==
  /\ phase = "compare" /\ pc = "summary"
  /\ pc' = "done"
  /\ UNCHANGED <<unit_vars, phase, env, args, db, pre_registrations, applicable_questions, skipped,
                 requests, response, content, result, registration, outcomes, files,
                 conn, db_log, db_fault, stderr, error, exit_code>>

Next ==
  \/ RegLoad
  \/ RegQueryLLM
  \/ RegWrite
  \/ RegSaveToDb
  \/ RegSummary
  \/ CmpLoad
  \/ CmpConnect
  \/ CmpExtract
  \/ CmpQueryLLM
  \/ CmpReport
  \/ CmpSaveToDb
  \/ CmpSummary

Spec == Init /\ [][Next]_vars


(***************************************************************************)
(* extract_run_outcomes on its own: the function is called on a datastore  *)
(* (more than once, for any run id) while the simulation may write to it.  *)
(***************************************************************************)
\* most calls of the function in one behaviour
MaxExtractions == 2

\* most changes the simulation makes to the tables in one behaviour
MaxWrites == 1

\* no script is running
MainIdle ==
  /\ phase = "none"
  /\ pc = "none"
  /\ env = [OPENROUTER_API_KEY |-> FALSE, LLM_DEFAULT_API_KEY |-> FALSE,
            DATABASE_URL |-> FALSE, input_file |-> FALSE]
  /\ args = [agents |-> 0, save_to_db |-> FALSE, run_id |-> "r1"]
  /\ db = [simulation_runs |-> {}, has_world_snapshot |-> FALSE]
  /\ pre_registrations = <<>>
  /\ registration = NoDocument
  /\ applicable_questions = <<>>
  /\ skipped = -1
  /\ requests = 0
  /\ response = "none"
  /\ content = Unset
  /\ result = Unset
  /\ outcomes = {}
  /\ files = {}
  /\ conn = "none"
  /\ db_log = <<>>
  /\ db_fault = "none"
  /\ stderr = {}
  /\ error = "none"
  /\ exit_code = 0

main_vars ==
  << phase, pc, env, args, db, pre_registrations, applicable_questions, skipped,
     requests, response, content, result, registration, outcomes, files, conn,
     db_log, db_fault, stderr, error, exit_code >>

RunRow(i) == [id |-> i, name |-> "run", status |-> "completed", max_ticks |-> 100]

AgentRow(born, died, cause, parent, gen) ==
  [born_at_tick |-> born, died_at_tick |-> died, cause_of_death |-> cause,
   parent_a |-> parent, generation |-> gen]

EventRow(type, agent, tick) == [event_type |-> type, agent_id |-> agent, tick |-> tick]

DiscoveryRow(item, tick, method, agent) ==
  [knowledge_item |-> item, tick |-> tick, method |-> method, agent_id |-> agent]

ConstructRow(name, category, founded, disbanded) ==
  [name |-> name, category |-> category, founded_at_tick |-> founded,
   disbanded_at_tick |-> disbanded]

\* table contents: each table empty or holding a few rows, not stored in the
\* order the queries ask for
TableContents ==
  [simulation_runs : {<<>>, <<RunRow("r1")>>, <<RunRow("r2"), RunRow("r1")>>},
   agents : {<<>>,
             << AgentRow(0, NULL, NULLTEXT, NULL, 0),
                AgentRow(0, 40, "exposure", NULL, 0),
                AgentRow(10, 30, "starvation", 1, 1),
                AgentRow(12, 50, "starvation", 1, 1),
                AgentRow(20, 25, NULLTEXT, 3, 2) >>},
   events : {<<>>,
             << EventRow("Trade", "a1", 5), EventRow("Combat", "a2", 9),
                EventRow("TRADE", "a2", 7), EventRow("Move", NULLTEXT, 1),
                EventRow("Combat", "a1", 3), EventRow("Combat", "a1", 4) >>},
   discoveries : {<<>>,
                  << DiscoveryRow("fire", 7, "experiment", "a1"),
                     DiscoveryRow("wheel", 3, "observation", NULLTEXT),
                     DiscoveryRow("rope", 7, "experiment", "a2") >>},
   social_constructs : {<<>>,
                        << ConstructRow("guild", "economic", 8, NULL),
                           ConstructRow("council", "governance", 2, 6) >>},
   deception_records : {<<>>,
                        << [deceiver |-> "a1", discovered |-> TRUE],
                           [deceiver |-> "a1", discovered |-> FALSE] >>},
   world_snapshots : {<<>>,
                      << [tick |-> 1, total_resources |-> 100],
                         [tick |-> 9, total_resources |-> 70],
                         [tick |-> 5, total_resources |-> 80] >>},
   ledger : {<<>>,
             << [entry_type |-> "mint", quantity |-> 5],
                [entry_type |-> "transfer", quantity |-> 3],
                [entry_type |-> "transfer", quantity |-> 2] >>}]

InitExtract ==
  /\ MainIdle
  /\ tables \in TableContents
  /\ writes = 0
  /\ extractions = <<>>
  /\ render_in = NoRenderInput
  /\ reports = <<>>
  /\ comparison_data = Unset
  /\ render_error = "none"
  /\ saves = <<>>

\* an extractor that deletes the world snapshot it has read
TablesAfterConsumingExtract(t) ==
  [t EXCEPT !.world_snapshots =
     IF t.world_snapshots = <<>> THEN <<>>
     ELSE SelectSeq(t.world_snapshots, LAMBDA r : r # FinalSnapshot(t))]

\* the function only issues SELECT statements: the tables after the call
TablesAfterExtract(t) == t

\* one call of extract_run_outcomes(conn, run_id)
ExtractOutcomes ==
  /\ Len(extractions) < MaxExtractions
  /\ \E run_id \in RunIds :
       LET found == RunRows(tables, run_id) # {}
       IN /\ tables' = (IF found THEN TablesAfterExtract(tables) ELSE tables)
          /\ extractions' = Append(extractions,
               [run_id |-> run_id, found |-> found, at |-> writes,
                before |-> tables, after |-> tables',
                outcomes |-> IF found THEN extract_run_outcomes(tables, run_id) ELSE <<>>])
  /\ UNCHANGED <<main_vars, writes, render_in, reports, comparison_data, render_error, saves>>

\* between two calls the simulation records an event
SimulationWrite ==
  /\ writes < MaxWrites
  /\ writes' = writes + 1
  /\ tables' = [tables EXCEPT !.events = Append(@, EventRow("Trade", "a3", 11))]
  /\ UNCHANGED <<main_vars, extractions, render_in, reports, comparison_data, render_error, saves>>

NextExtract == ExtractOutcomes \/ SimulationWrite

SpecExtract == InitExtract /\ [][NextExtract]_vars


(***************************************************************************)
(* The report step on its own: the parsed comparison response, the         *)
(* registration document and the outcome snapshot go through               *)
(* generate_markdown_report and into the comparison JSON, more than once.  *)
(***************************************************************************)
\* longest list of comparisons drawn from ComparisonObjects
MaxComparisons == 3

\* most report steps in one behaviour
MaxRenders == 2

\* what datetime.now(timezone.utc).strftime("%Y-%m-%d %H:%M UTC") may return
Clock == {"2026-01-01 10:00 UTC", "2026-01-01 10:01 UTC"}

RenderComparison(q, v, surprise) ==
  Dict(<<"question_id", "verdict", "evidence", "divergence_notes", "surprise_factor">>,
       <<Str(q), v, Str("evidence"), Str(""), surprise>>)

\* comparison objects: known verdicts with a surprise factor in range, then
\* an unknown verdict, a verdict in capitals, surprise factors out of range or
\* not a number, a verdict that is not a string, and an object with neither key
ComparisonObjects ==
  { RenderComparison("social_coordination", Str("confirmed"), NumV("3")),
    RenderComparison("leadership", Str("divergent"), NumV("5")),
    RenderComparison("social_coordination", Str("insufficient_data"), Str("high")),
    RenderComparison("unlisted_question", Str("maybe"), NumV("9")),
    RenderComparison("social_coordination", Str("CONFIRMED"), NumV("0")),
    RenderComparison("leadership", NumV("3"), NumV("3")),
    Dict(<<"question_id">>, <<Str("leadership")>>) }

\* five comparisons: confirmed, confirmed, divergent, partially_confirmed, divergent
FiveComparisons ==
  FullComparison(
    << RenderComparison("social_coordination", Str("confirmed"), NumV("3")),
       RenderComparison("leadership", Str("confirmed"), NumV("2")),
       RenderComparison("exchange_networks", Str("divergent"), NumV("4")),
       RenderComparison("resource_inequality", Str("partially_confirmed"), NumV("3")),
       RenderComparison("scarcity_response", Str("divergent"), NumV("5")) >>)

RenderContents ==
  {Invalid, Dict(<<>>, <<>>), FiveComparisons}
    \cup {FullComparison(cs) : cs \in SeqsUpTo(ComparisonObjects, MaxComparisons)}

\* a registration document as pre-register.py writes it
RegistrationDocument ==
  Dict(<<"schema_version", "model", "experiment_config", "predictions">>,
       << NumV("1"), Str("model-x"),
          Dict(<<"agent_count", "tick_count", "personality_mode", "knowledge_level",
                 "reproduction_enabled">>,
               <<NumV("8"), NumV("100"), Str("random"), Str("none"), NumV("false")>>),
          List(<< Dict(<<"question_id", "prediction", "confidence">>,
                       <<Str("social_coordination"), Str("agents cooperate"), Str("high")>>) >>) >>)

\* a registration document with no configuration and no prediction
BareRegistration == Dict(<<"predictions">>, <<List(<<>>)>>)

\* numbers of discoveries in the snapshot: none, few, around the cap, well above
DiscoveryCounts == {0, 1, TimelineCap - 1, TimelineCap, TimelineCap + 1, TimelineCap + 15}

TwoConstructs ==
  <<ConstructRow("guild", "economic", 8, NULL), ConstructRow("council", "governance", 2, 6)>>

\* the snapshot of run r1 over n discoveries (stored latest first) and the
\* given social constructs
SnapshotWith(n, constructs) ==
  extract_run_outcomes(
    [NoTables EXCEPT
       !.simulation_runs = <<RunRow("r1")>>,
       !.events = <<EventRow("Trade", "a1", 5), EventRow("Combat", "a2", 9)>>,
       !.discoveries = [i \in 1..n |->
                          DiscoveryRow("item", n + 1 - i, "experiment", "a1")],
       !.social_constructs = constructs],
    "r1")

RenderInputs ==
  {[content |-> c, predictions_file |-> "predictions.json", registration |-> r,
    outcomes |-> SnapshotWith(2, TwoConstructs)] :
      c \in RenderContents, r \in {RegistrationDocument, BareRegistration}}
    \cup
  {[content |-> FiveComparisons, predictions_file |-> "predictions.json",
    registration |-> RegistrationDocument, outcomes |-> SnapshotWith(n, constructs)] :
      n \in DiscoveryCounts, constructs \in {<<>>, TwoConstructs}}

InitRender ==
  /\ MainIdle
  /\ tables = NoTables
  /\ writes = 0
  /\ extractions = <<>>
  /\ render_in \in RenderInputs
  /\ reports = <<>>
  /\ comparison_data = Unset
  /\ render_error = "none"
  /\ saves = <<>>

\* query_llm's parse, generate_markdown_report, the comparison JSON
ReportStep ==
  /\ Len(reports) < MaxRenders
  /\ render_error = "none"
  /\ LET r == ParseComparison(render_in.content)
     IN IF ~r.parsed
        THEN /\ render_error' = "MalformedResponse"
             /\ UNCHANGED <<reports, comparison_data>>
        ELSE IF ReportRaises(r.value)
        THEN /\ render_error' = "UncaughtException"
             /\ UNCHANGED <<reports, comparison_data>>
        ELSE \E now \in Clock :
               /\ reports' = Append(reports,
                    generate_markdown_report(now, render_in.predictions_file,
                      render_in.registration, render_in.outcomes, r.value))
               /\ comparison_data' =
                    [predictions_file |-> render_in.predictions_file,
                     outcomes |-> render_in.outcomes,
                     comparison |-> r.value]
               /\ UNCHANGED render_error
  /\ UNCHANGED <<main_vars, tables, writes, extractions, render_in, saves>>

NextRender == ReportStep

SpecRender == InitRender /\ [][NextRender]_vars


(***************************************************************************)
(* pre-register.py, save_to_db called several times on one store.          *)
(***************************************************************************)
\* most calls of the function in one behaviour
MaxSaves == 2

\* the registrations handed to the function
SaveDocuments ==
  { [research_questions |-> FilterQuestions(RESEARCH_QUESTIONS, n), agent_count |-> n,
     predictions |-> List(P)] :
      n \in {5, 10}, P \in {<<>>, <<Pred("social_coordination")>>} }

InitSave ==
  /\ MainIdle
  /\ UnitIdle

\* one call of save_to_db(registration, db_url)
SaveToDb ==
  /\ Len(saves) < MaxSaves
  /\ \E doc \in SaveDocuments, fault \in {"none", "import", "connect", "execute", "commit"} :
       /\ registration' = doc
       /\ db_fault' = fault
       /\ db_log' = db_log \o SaveCalls(fault)
       /\ conn' = CASE fault \in {"import", "connect"} -> conn
                    [] fault \in {"execute", "commit"} -> "open"
                    [] OTHER -> "closed"
       /\ pre_registrations' =
            IF fault = "none" THEN Insert(pre_registrations, Row(doc)) ELSE pre_registrations
       /\ stderr' = IF fault = "none" THEN stderr ELSE stderr \cup {"WARNING"}
       /\ saves' = Append(saves, [registration |-> doc, persisted |-> fault = "none"])
  /\ UNCHANGED <<phase, pc, env, args, db, applicable_questions, skipped, requests, response,
                 content, result, outcomes, files, error, exit_code,
                 tables, writes, extractions, render_in, reports, comparison_data,
                 render_error>>

NextSave == SaveToDb

SpecSave == InitSave /\ [][NextSave]_vars


(***************************************************************************)
(* Properties.                                                             *)
(***************************************************************************)
Elements(seq) == {seq[i] : i \in 1..Len(seq)}

ApplicableIds == {q.id : q \in Elements(registration.research_questions)}

\* C1: in every registration document written, every predictions[i].question_id
\* is the id of one of the document's research_questions.
C1_PredictionIdsApplicable ==
  ("registration" \in files /\ IsList(registration.predictions)) =>
    \A p \in Elements(registration.predictions.items) :
      (IsDict(p) /\ Has(p, "question_id")) => QidOf(p) \in ApplicableIds

\* C2: for every list P of prediction objects, the document holds P whether
\* the service sent P bare, wrapped under "predictions", or keyed by question id.
C2_ShapesAgree ==
  "registration" \in files =>
    \A P \in PredLists :
      (\/ content = Bare(P)
       \/ content = Wrapped(P)
       \/ (DistinctIds(P) /\ content = Keyed(P)))
        => registration.predictions = List(P)

\* The three shapes do agree on every list in which no question id is the
\* string "predictions" (the key that marks the wrapped shape).
ShapesAgreeUnlessPredictionsKey ==
  "registration" \in files =>
    \A P \in PredLists :
      (/\ \A i \in 1..Len(P) : QidOf(P[i]) # "predictions"
       /\ \/ content = Bare(P)
          \/ content = Wrapped(P)
          \/ (DistinctIds(P) /\ content = Keyed(P)))
        => registration.predictions = List(P)

\* the three shapes the registration parser is to accept
AllDicts(xs) == \A i \in 1..Len(xs) : IsDict(xs[i])

Tolerated(c) ==
  \/ IsList(c) /\ AllDicts(c.items)
  \/ /\ IsDict(c) /\ Has(c, "predictions")
     /\ IsList(Get(c, "predictions", Unset))
     /\ AllDicts(Get(c, "predictions", Unset).items)
  \/ IsDict(c) /\ AllDicts(c.items)

\* C3: a response content that is none of the three tolerated shapes ends the
\* registration phase with MalformedResponse, and no document is written.
C3_OtherShapesFatal ==
  (phase = "register" /\ response = "ok" /\ ~Tolerated(content)) =>
    /\ "registration" \notin files
    /\ pc = "done" => error = "MalformedResponse"

\* the place of a question in the catalog
Pos(q) == CHOOSE j \in 1..Len(RESEARCH_QUESTIONS) : RESEARCH_QUESTIONS[j] = q

\* C4: the filter returns exactly the catalog questions with min_agents <= n,
\* each once and in catalog order, and the number left out is the catalog size
\* minus the size of the result.
C4_FilterExact ==
  (phase = "register" /\ skipped # -1) =>
    /\ \A i \in 1..Len(applicable_questions) :
         /\ applicable_questions[i] \in Elements(RESEARCH_QUESTIONS)
         /\ applicable_questions[i].min_agents <= args.agents
    /\ \A i, k \in 1..Len(applicable_questions) :
         i < k => Pos(applicable_questions[i]) < Pos(applicable_questions[k])
    /\ \A q \in Elements(RESEARCH_QUESTIONS) :
         q.min_agents <= args.agents => q \in Elements(applicable_questions)
    /\ skipped = Cardinality({j \in 1..Len(RESEARCH_QUESTIONS) :
                                RESEARCH_QUESTIONS[j].min_agents > args.agents})
    /\ skipped = Len(RESEARCH_QUESTIONS) - Len(applicable_questions)

\* some questions are kept and some are left out
C4_Witness ==
  phase = "register" /\ skipped > 0 /\ Len(applicable_questions) > 0 /\ pc = "query"

\* no row of pre_registrations was added or updated
StoreUntouched ==
  /\ phase = "register" => pre_registrations = <<>>
  /\ \A r \in Elements(pre_registrations) :
       r.run_id = "null" /\ r.comparison_report = Unset

WriteCalls == {"create_table", "insert", "update", "commit"}

NoDatastoreWrite == StoreUntouched /\ Elements(db_log) \cap WriteCalls = {}

\* C5: an empty filter result ends the registration phase with
\* NoApplicableQuestions before any inference request, with no file and no
\* datastore record written.
C5_NoApplicableQuestions ==
  (phase = "register" /\ skipped # -1 /\ applicable_questions = <<>>) =>
    /\ pc = "done" /\ error = "NoApplicableQuestions" /\ exit_code = 1
    /\ requests = 0 /\ response = "none"
    /\ files = {}
    /\ db_log = <<>> /\ NoDatastoreWrite

C5_Witness ==
  phase = "register" /\ skipped = Len(RESEARCH_QUESTIONS) /\ pc = "done"

\* C6: with a run identifier that does not exist the comparison phase ends with
\* RunNotFound right after the run lookup: no further query, no snapshot, no
\* inference request, no report, no JSON artifact, no datastore update.
C6_RunNotFound ==
  (phase = "compare" /\ "run" \in Elements(db_log)
     /\ args.run_id \notin db.simulation_runs) =>
    /\ pc = "done" /\ error = "RunNotFound" /\ exit_code = 1
    /\ db_log = <<"connect", "run">>
    /\ outcomes = {}
    /\ requests = 0 /\ response = "none"
    /\ files = {}
    /\ NoDatastoreWrite

C6_Witness ==
  phase = "compare" /\ error = "RunNotFound" /\ db.simulation_runs # {}

\* C7: when the invocation has terminated, a datastore connection it opened
\* has been closed.
C7_ConnectionClosed == pc = "done" => conn \in {"none", "closed"}

\* C8: with no inference credential, or (comparison phase) no datastore
\* connection string, no datastore call and no inference request is attempted.
C8_ConfigBeforeExternalCalls ==
  (~get_api_key \/ (phase = "compare" /\ ~env.DATABASE_URL)) =>
    (requests = 0 /\ db_log = <<>>)

\* C9: at most one inference request per invocation; a failed request is not
\* retried, the invocation ends with a non-zero status and writes no artifact
\* file and nothing to the datastore.
C9_NoRetry ==
  /\ requests <= 1
  /\ response \in {"transport", "http"} =>
       /\ requests = 1
       /\ pc = "done" /\ exit_code = 1 /\ error = "InferenceError"
       /\ files = {}
       /\ NoDatastoreWrite

C9_Witness == response \in {"transport", "http"} /\ pc = "done" /\ phase = "compare"

PrimaryArtifacts ==
  IF phase = "register" THEN {"registration"} ELSE {"report", "comparison_json"}

\* the persistence step was entered: save_to_db (registration), the UPDATE (comparison)
PersistenceAttempted ==
  \/ db_fault # "none"
  \/ phase = "register" /\ db_log # <<>>
  \/ phase = "compare" /\ "update" \in Elements(db_log)

\* C10: the persistence step is attempted only after the primary artifacts are
\* written; its failure is reported as a warning, leaves the artifacts in
\* place, and does not end the invocation: it goes on to the summary and ends
\* with status 0 unless the summary itself raises.
C10_PersistenceNonFatal ==
  /\ PersistenceAttempted => PrimaryArtifacts \subseteq files
  /\ db_fault # "none" =>
       /\ "WARNING" \in stderr
       /\ PrimaryArtifacts \subseteq files
       /\ pc \in {"summary", "done"}
       /\ error \in {"none", "UncaughtException"}
       /\ error = "none" => exit_code = 0
       /\ error = "UncaughtException" =>
            phase = "register" /\ SummaryRaises(registration.predictions)

C10_Witness ==
  db_fault \in {"connect", "execute", "commit"} /\ pc = "done" /\ exit_code = 0

\* the topic keys of an outcome snapshot
Topics == {TopicQueries[i] : i \in 1..Len(TopicQueries)}

\* C11: the snapshot extracted for an existing run holds every topic key; a
\* topic whose query returns no row is present (as an empty object or an empty
\* sequence), never missing.
C11_AllTopicsPresent ==
  (phase = "compare" /\ "population" \in Elements(db_log)) =>
    \A topic \in Topics : topic \in outcomes

ExtractionSeesWrites ==
  \A i, j \in 1..Len(extractions) :
    (extractions[i].found /\ extractions[j].found
       /\ extractions[i].run_id = extractions[j].run_id)
      => extractions[j].outcomes = extractions[i].outcomes

\* the snapshot's keys are the ones the script model records
SnapshotKeysAgree ==
  \A i \in 1..Len(extractions) :
    extractions[i].found =>
      DOMAIN extractions[i].outcomes = SnapshotKeys(extractions[i].before.world_snapshots # <<>>)

\* the keys a comparison response is to carry
ComparisonKeys ==
  {"comparisons", "overall_summary", "most_interesting_divergences",
   "recapitulation_assessment"}

\* a single object that has every key
CompleteComparison(c) == IsDict(c) /\ \A k \in ComparisonKeys : Has(c, k)

\* C13: in the comparison phase a response content that is not a single object,
\* or is an object lacking one of the four keys, is fatal (MalformedResponse):
\* the phase ends with a non-zero status, and neither the report nor the
\* comparison JSON is written.  (A content that is no object at all does end
\* the phase, by an uncaught exception; the formula does not hold that against
\* the claim.)
C13_PartialComparisonFatal ==
  (phase = "compare" /\ response = "ok" /\ ~CompleteComparison(content)) =>
    /\ "report" \notin files /\ "comparison_json" \notin files
    /\ pc \notin {"save", "summary"}
    /\ pc = "done" => exit_code = 1

\* the lines of a report that belong to a section and are of a kind, in order
LinesOf(report, section, kind) ==
  LET at == Ascending({i \in 1..Len(report) :
                         report[i].section = section /\ report[i].kind = kind})
  IN [p \in 1..Len(at) |-> report[at[p]]]

\* the report step has run
ReportStepTaken == reports # <<>> \/ render_error # "none"

KnownVerdicts == {"confirmed", "partially_confirmed", "divergent", "insufficient_data"}

SurpriseInRange == {NumV("1"), NumV("2"), NumV("3"), NumV("4"), NumV("5")}

UnknownVerdict(c) ==
  Has(c, "verdict") /\ ~(VerdictOf(c).t = "str" /\ VerdictOf(c).s \in KnownVerdicts)

SurpriseOutOfRange(c) ==
  Has(c, "surprise_factor") /\ Get(c, "surprise_factor", Unset) \notin SurpriseInRange

\* a complete comparison object whose comparisons are objects
ComparisonObjectList(c) ==
  /\ CompleteComparison(c)
  /\ IsList(Get(c, "comparisons", Unset))
  /\ AllDicts(ComparisonsOf(c))

\* C14: a comparison whose verdict is not one of the four known strings, or
\* whose surprise_factor is outside 1..5, is not rejected, is stored unchanged
\* in the comparison JSON, the renderer does not fail on it, and the report
\* shows the value as received wherever that comparison's verdict (tally row,
\* section heading) or surprise factor (section heading) appears.
C14_UnexpectedValuesLiteral ==
  (ReportStepTaken /\ ComparisonObjectList(render_in.content)) =>
    \A i \in 1..Len(ComparisonsOf(render_in.content)) :
      LET c == ComparisonsOf(render_in.content)[i]
      IN (UnknownVerdict(c) \/ SurpriseOutOfRange(c)) =>
           /\ render_error = "none"
           /\ comparison_data.comparison = render_in.content
           /\ \A k \in 1..Len(reports) :
                LET heading == LinesOf(reports[k], "comparisons", "comparison_heading")[i]
                    tally   == LinesOf(reports[k], "verdicts", "row")
                IN /\ UnknownVerdict(c) =>
                        /\ heading.cells[2] = PyStr(VerdictOf(c))
                        /\ \E g \in 1..Len(tally) : tally[g].cells[1] = PyStr(VerdictOf(c))
                   /\ SurpriseOutOfRange(c) =>
                        heading.cells[3] = PyStr(Get(c, "surprise_factor", Unset))

\* a comparison document with every field of the type the prompt asks for
WellTyped(c) ==
  /\ ComparisonObjectList(c)
  /\ \A i \in 1..Len(ComparisonsOf(c)) : VerdictOf(ComparisonsOf(c)[i]).t = "str"
  /\ Get(c, "overall_summary", Unset).t = "str"
  /\ IsList(Get(c, "most_interesting_divergences", Unset))
  /\ Get(c, "recapitulation_assessment", Unset).t = "str"

ReportTables == {"configuration", "summary", "discoveries", "social_constructs", "verdicts"}

HasTableHeader(report, section) ==
  \E i \in 1..Len(report) :
    report[i].section = section /\ report[i].kind = "table_header"

\* C15: for every well-typed comparison document and registration document,
\* also with no comparison, no discovery and no social construct, rendering
\* completes without error and the report holds the header row of each of its
\* tables: configuration, summary metrics, discovery timeline, social
\* constructs, verdict tally.
C15_RendererTotal ==
  (ReportStepTaken /\ WellTyped(render_in.content)) =>
    /\ render_error = "none"
    /\ \A k \in 1..Len(reports) :
         \A section \in ReportTables : HasTableHeader(reports[k], section)

\* The headers that do not depend on the snapshot are always there, and the
\* other two exactly when their sequence is not empty.
HeadersWhenRowsExist ==
  (ReportStepTaken /\ WellTyped(render_in.content)) =>
    /\ render_error = "none"
    /\ \A k \in 1..Len(reports) :
         /\ \A section \in {"configuration", "summary", "verdicts"} :
              HasTableHeader(reports[k], section)
         /\ \A section \in {"discoveries", "social_constructs"} :
              HasTableHeader(reports[k], section) <=> render_in.outcomes[section] # <<>>

\* C16: two renderings of the same comparison document and registration
\* document give the same report text.
C16_RenderDeterministic ==
  \A i, j \in 1..Len(reports) : reports[i] = reports[j]

\* Two renderings differ in nothing but the generation time.
SameButForGenerationTime ==
  \A i, j \in 1..Len(reports) :
    /\ Len(reports[i]) = Len(reports[j])
    /\ \A n \in 1..Len(reports[i]) :
         reports[i][n].kind # "generated" => reports[i][n] = reports[j][n]

\* the footnote follows the last timeline row
FootnoteAfterRows(report) ==
  \A i, j \in 1..Len(report) :
    (/\ report[i].section = "discoveries" /\ report[i].kind = "row"
     /\ report[j].section = "discoveries" /\ report[j].kind = "footnote") => i < j

\* C17: for a snapshot with N discoveries the timeline of the report holds
\* exactly the first min(N, 30) discoveries, in snapshot order; when N > 30 a
\* footnote follows that states N - 30 (45 discoveries: 30 rows and "15"); when
\* N <= 30 there is no footnote.
C17_TimelineTruncation ==
  \A k \in 1..Len(reports) :
    LET discoveries == render_in.outcomes.discoveries
        N     == Len(discoveries)
        rows  == LinesOf(reports[k], "discoveries", "row")
        notes == LinesOf(reports[k], "discoveries", "footnote")
    IN /\ Len(rows) = (IF N < 30 THEN N ELSE 30)
       /\ \A i \in 1..Len(rows) :
            rows[i].cells = <<ToString(discoveries[i].tick), discoveries[i].knowledge,
                              discoveries[i].method>>
       /\ N > 30 => /\ Len(notes) = 1
                    /\ notes[1].cells = <<ToString(N - 30)>>
                    /\ FootnoteAfterRows(reports[k])
       /\ N <= 30 => notes = <<>>
       /\ N = 45 => Len(rows) = 30 /\ notes[1].cells = <<"15">>

\* a report over 45 discoveries, stored out of tick order, was rendered
C17_Witness ==
  /\ reports # <<>>
  /\ Len(render_in.outcomes.discoveries) = 45
  /\ render_in.outcomes.discoveries[1].tick < render_in.outcomes.discoveries[45].tick
  /\ Len(LinesOf(reports[1], "discoveries", "row")) = 30

\* the comparisons whose verdict (or "unknown" when it has none) is v
WithVerdict(comparisons, v) ==
  {i \in 1..Len(comparisons) : VerdictOf(comparisons[i]).s = v}

\* C18: the verdict tally has exactly one row per distinct verdict string among
\* the comparisons (a comparison without verdict counts as "unknown"), the
\* count of a row is the number of comparisons with that verdict, the rows are
\* in ascending order of verdict name, and the counts add up to the number of
\* comparisons; [confirmed, confirmed, divergent, partially_confirmed,
\* divergent] gives confirmed:2, divergent:2, partially_confirmed:1.
C18_VerdictTally ==
  \A k \in 1..Len(reports) :
    LET comparisons == ComparisonsOf(render_in.content)
        rows        == LinesOf(reports[k], "verdicts", "row")
        verdicts    == {VerdictOf(comparisons[i]).s : i \in 1..Len(comparisons)}
    IN /\ \A v \in verdicts :
            Cardinality({g \in 1..Len(rows) : rows[g].cells[1] = v}) = 1
       /\ \A g \in 1..Len(rows) :
            /\ rows[g].cells[1] \in verdicts
            /\ rows[g].cells[2] =
                 ToString(Cardinality(WithVerdict(comparisons, rows[g].cells[1])))
       /\ \A g, h \in 1..Len(rows) :
            g < h => Rank(rows[g].cells[1]) < Rank(rows[h].cells[1])
       /\ Sum([g \in 1..Len(rows) |->
                 Cardinality(WithVerdict(comparisons, rows[g].cells[1]))],
              1..Len(rows)) = Len(comparisons)
       /\ render_in.content = FiveComparisons =>
            [g \in 1..Len(rows) |-> rows[g].cells] =
              << <<"confirmed", "2">>, <<"divergent", "2">>, <<"partially_confirmed", "1">> >>

\* a tally was rendered for verdicts that first occur out of order, one of
\* them twice
C18_Witness ==
  /\ reports # <<>>
  /\ LET comparisons == ComparisonsOf(render_in.content)
     IN /\ Len(comparisons) = 3
        /\ VerdictOf(comparisons[1]).s = "divergent"
        /\ VerdictOf(comparisons[2]).s = "confirmed"
        /\ VerdictOf(comparisons[3]).s = "divergent"

\* the filter ran for 8 agents
FilteredForEight == phase = "register" /\ args.agents = 8 /\ skipped # -1

\* the catalog questions that need 10 agents
NeedTen == {j \in 1..Len(RESEARCH_QUESTIONS) : RESEARCH_QUESTIONS[j].min_agents = 10}

\* for 8 agents the filter leaves out the questions with min_agents 10 and
\* keeps all others
KeepsAllButTen ==
  \A q \in Elements(RESEARCH_QUESTIONS) :
    q \in Elements(applicable_questions) <=> q.min_agents # 10

\* C19 as stated: for the shipped catalog and 8 agents the filter leaves out
\* every question with min_agents 10 and keeps all others; the catalog holds
\* 15 questions, 4 of them need 10 agents, so 11 are applicable.
C19_ElevenApplicable ==
  FilteredForEight =>
    /\ KeepsAllButTen
    /\ Len(RESEARCH_QUESTIONS) = 15
    /\ Cardinality(NeedTen) = 4
    /\ Len(applicable_questions) = 11

\* C19, amended: for the shipped catalog and 8 agents the filter leaves out
\* every question with min_agents 10 and keeps all others; the catalog holds
\* 15 questions, 5 of them need 10 agents, so 10 are applicable.
C19_TenApplicable ==
  FilteredForEight =>
    /\ KeepsAllButTen
    /\ Len(RESEARCH_QUESTIONS) = 15
    /\ Cardinality(NeedTen) = 5
    /\ Len(applicable_questions) = 10
    /\ skipped = 5

C19_Witness ==
  FilteredForEight /\ pc = "query" /\ applicable_questions # <<>>

\* C20: whenever a phase ends with MalformedResponse, be it on invalid JSON or
\* on valid JSON of an unexpected structure, the raw inference text has been
\* printed for the operator.
C20_RawTextSurfaced ==
  error = "MalformedResponse" => "RAW_RESPONSE" \in stderr

\* The raw text is printed whenever the text is not valid JSON, in both phases.
RawTextOnInvalidJson ==
  (error = "MalformedResponse" /\ content = Invalid) => "RAW_RESPONSE" \in stderr


\* the key the registrations are stored under: experiment configuration and
\* prediction content
KeyOf(row) == <<row.experiment_config, row.predictions>>

\* the rows of the store that carry the key
RowsWithKey(store, key) == {i \in DOMAIN store : KeyOf(store[i]) = key}

\* the calls of save_to_db that ended without an exception
PersistedSaves == {i \in DOMAIN saves : saves[i].persisted}

\* C21: persistence is an upsert keyed by experiment configuration and
\* prediction content: however many times registrations with equal
\* configuration and equal predictions were persisted, the store holds exactly
\* one record with that key.
C21_UpsertOneRecordPerKey ==
  \A i \in PersistedSaves :
    Cardinality(RowsWithKey(pre_registrations, KeyOf(Row(saves[i].registration)))) = 1

\* what the code does instead: one record per call that went through
OneRecordPerPersistedSave ==
  \A i \in DOMAIN saves :
    Cardinality(RowsWithKey(pre_registrations, KeyOf(Row(saves[i].registration))))
      = Cardinality({j \in PersistedSaves :
                       KeyOf(Row(saves[j].registration)) = KeyOf(Row(saves[i].registration))})


\* the topics of a snapshot other than the run's metadata
OtherTopics(o) == DOMAIN o \ {"run"}

\* C22: two existing runs extracted against the same state of the datastore
\* give snapshots that differ at most in the run topic: the snapshots hold the
\* same topics (a topic missing from one is missing from the other), and every topic other than run (population, death causes,
\* trade, discoveries, social constructs, deception, final world state,
\* conflict, ledger summary, event distribution, tick range) has the same value
\* in both, being computed over all rows of its table.
C22_OnlyRunTopicDependsOnRun ==
  \A i, j \in 1..Len(extractions) :
    (extractions[i].found /\ extractions[j].found
       /\ extractions[i].before = extractions[j].before)
      => /\ DOMAIN extractions[i].outcomes = DOMAIN extractions[j].outcomes
         /\ \A topic \in OtherTopics(extractions[i].outcomes) :
              extractions[i].outcomes[topic] = extractions[j].outcomes[topic]

\* the two runs extracted one after the other from tables that hold rows: the
\* run topics differ
C22_Witness ==
  /\ Len(extractions) = 2
  /\ extractions[1].found /\ extractions[2].found
  /\ extractions[1].run_id # extractions[2].run_id
  /\ extractions[1].before = extractions[2].before
  /\ extractions[1].outcomes.run # extractions[2].outcomes.run
  /\ tables.events # <<>> /\ tables.agents # <<>> /\ tables.world_snapshots # <<>>
  /\ "final_world_state" \in DOMAIN extractions[2].outcomes

=============================================================================
